---- MODULE Spec2Model ----
(***************************************************************************)
(* Model of the shift generator of src/app.py: the hard-constraint         *)
(* validator is_assignment_valid, the night-triple pre-assigner            *)
(* assign_night_shift_sets, the slot ordering and the backtracking search  *)
(* solve_shift_puzzle, and the orchestrating request handler               *)
(* generate_shifts with its request test, its month replace in the shifts  *)
(* table inside the transaction of db.session, and its except branch.      *)
(*                                                                         *)
(* Dates are day numbers relative to the target month: 1..NumDays is the   *)
(* target month, 0 is prev_month_end (the last day of the previous month), *)
(* -1 the day before it, NumDays+1 the first day of the next month.        *)
(*                                                                         *)
(* Shift kinds are written with the names of the specification; the wire   *)
(* tokens of the source are                                                *)
(*   early=早 day1=日1 day2=日2 middle=中 late=遅 night=夜                 *)
(*   after=明 holiday=休 paid=有                                           *)
(* Employment types: regular=正規職員 contract=嘱託職員 parttime=any other *)
(* Experience: trainee=新人, veteran=any other.                            *)
(*                                                                         *)
(* Spec is one request on an interpreter with the default recursion limit; *)
(* SpecShallow is the same handler on an interpreter whose limit is below  *)
(* the number of slots; SpecConcurrent is two requests for the same month  *)
(* handled at once, each with its own db.session.                          *)
(***************************************************************************)
EXTENDS Integers, Sequences, FiniteSets, Bags, TLC

\* ------------------------------------------------------------------ bounds
\* Length of the target month (calendar.monthrange gives 28..31).
NumDays == 5

\* The staff table, ordered by id (order_by(Staff.id)).
StaffIds == {1, 2}

\* ------------------------------------------------------------- shift kinds
None == "none"

work_shifts == <<"early", "day1", "day2", "middle", "late", "night">>

base_shifts ==
    <<"early", "day1", "day2", "middle", "late", "night", "holiday", "after">>

Range(f) == {f[i] : i \in DOMAIN f}

WORK == Range(work_shifts)

BaseKinds == Range(base_shifts)

SHIFT_HOURS ==
    [k \in BaseKinds |->
        IF k = "night" THEN 16 ELSE IF k \in {"after", "holiday"} THEN 0 ELSE 8]

\* SHIFT_HOURS.get(st, 0)
HoursOf(k) == IF k \in DOMAIN SHIFT_HOURS THEN SHIFT_HOURS[k] ELSE 0

NightEmployment == {"regular", "contract"}

MonthDates == 1..NumDays

\* Keys a draft row can hold: prev_month_end .. end_date.
DraftDates == 0..NumDays

start_date == 1

end_date == NumDays

VARIABLES
    year,               \* data.get('year'), None when the field is missing
    month,              \* data.get('month'), None when the field is missing
    staff,              \* staff id -> [employment_type, experience]
    availabilities,     \* staff id -> sequence of availability rows
    required_staffing,  \* date -> WORK kind -> required count (0 = absent)
    TARGET_HOLIDAYS,    \* targetHolidays of the request
    store,              \* the shifts table: a bag of [staff_id, date, shift_type]
    session,            \* the changes of db.session's open transaction
    stored_before,      \* the shifts table when the request arrived
    existing_shifts,    \* the rows generate_shifts read into the draft
    shift_draft,        \* staff id -> date -> kind, None = no key
    sorted_unassigned_slots, \* the slot list handed to the search
    stack,              \* one frame per active call of solve_shift_puzzle
    success,            \* result of the outermost solve_shift_puzzle call
    final_message,      \* "complete" / "incomplete", None before the response
    raised,             \* the step of the handler that raised, None if none did
    status,             \* HTTP status of the response, 0 before the response
    pc,                 \* position of the request handler
    recursion_limit,    \* nested calls of solve_shift_puzzle the interpreter allows
    other               \* the locals of a second request the server is handling

vars ==
    <<year, month, staff, availabilities, required_staffing, TARGET_HOLIDAYS,
      store, session, stored_before, existing_shifts, shift_draft,
      sorted_unassigned_slots, stack, success, final_message, raised, status,
      pc, recursion_limit, other>>

inputs ==
    <<year, month, staff, availabilities, required_staffing, TARGET_HOLIDAYS,
      stored_before, recursion_limit>>

\* ---------------------------------------------------------------- helpers
\* all_staff, ordered by id.
RECURSIVE SetToSortedSeq(_)
SetToSortedSeq(S) ==
    IF S = {} THEN <<>>
    ELSE LET m == CHOOSE x \in S : \A y \in S : x <= y
         IN  <<m>> \o SetToSortedSeq(S \ {m})

all_staff == SetToSortedSeq(StaffIds)

StaffIndex(s) == CHOOSE i \in DOMAIN all_staff : all_staff[i] = s

\* shift_draft[sid].get(date)
Get(draft, s, d) == IF d \in DraftDates THEN draft[s][d] ELSE None

\* date.weekday() mapped to the table's encoding, 0 = Sunday; day 1 of the
\* modelled month is a Sunday.
day_of_week_db(d) == (d - 1) % 7

\* list(shift_draft[staff.id].values()).count(kind)
CountKind(draft, s, k) == Cardinality({d \in DraftDates : draft[s][d] = k})

RECURSIVE SumOver(_, _)
SumOver(f, S) ==
    IF S = {} THEN 0
    ELSE LET x == CHOOSE y \in S : TRUE IN f[x] + SumOver(f, S \ {x})

\* ------------------------------------------------------------ the validator
\* Rule 1: the first availability row for (weekday, kind) decides.
Matching(avs, dow, k) ==
    {i \in DOMAIN avs : avs[i].day_of_week = dow /\ avs[i].shift_type = k}

FirstMatch(avs, dow, k) ==
    LET m == Matching(avs, dow, k)
    IN  IF m = {} THEN TRUE
        ELSE avs[CHOOSE i \in m : \A j \in m : i <= j].is_available

IsAvailable(s, d, k) == FirstMatch(availabilities[s], day_of_week_db(d), k)

\* Fault variant of NightChainOk: the day after a night is not restricted.
NightChainOkNoPostNight(s, d, k, draft) ==
    LET prev_shift == Get(draft, s, d - 1)
        two_days_ago_shift == Get(draft, s, d - 2)
    IN  /\ ~(k = "after" /\ prev_shift # "night")
        /\ ~(two_days_ago_shift = "night" /\ prev_shift = "after"
             /\ k # "holiday")

\* Rule 2: night -> after -> holiday, looking at the two days before.
NightChainOk(s, d, k, draft) ==
    LET prev_shift == Get(draft, s, d - 1)
        two_days_ago_shift == Get(draft, s, d - 2)
    IN  /\ ~(k = "after" /\ prev_shift # "night")
        /\ ~(prev_shift = "night" /\ k \notin {"after", "holiday"})
        /\ ~(two_days_ago_shift = "night" /\ prev_shift = "after"
             /\ k # "holiday")

\* Fault variant of NightQualified: the employment type is not looked at.
NightQualifiedUnchecked(s, k) == TRUE

\* Rule 2b: night only for regular and contract staff.
NightQualified(s, k) ==
    k = "night" => staff[s].employment_type \in NightEmployment

\* Rule 3: the run of WORK days before the date, looking back 4 days.
RECURSIVE ConsecutiveBefore(_, _, _, _)
ConsecutiveBefore(draft, s, d, i) ==
    IF i > 4 THEN 0
    ELSE IF Get(draft, s, d - i) \in WORK
         THEN 1 + ConsecutiveBefore(draft, s, d, i + 1)
         ELSE 0

ConsecutiveOk(s, d, k, draft) ==
    k \in WORK => ~(1 + ConsecutiveBefore(draft, s, d, 1) > 4)

\* Rule 4: the holiday quota.
HolidayQuotaOk(s, d, k, draft) ==
    LET current_holidays == CountKind(draft, s, "holiday")
        remaining_days == NumDays - d + 1
        required_holidays == TARGET_HOLIDAYS - current_holidays
    IN  /\ ~(k = "holiday" /\ current_holidays >= TARGET_HOLIDAYS)
        /\ ~(k # "holiday" /\ remaining_days < required_holidays)

\* Rule 5: the per-day required count, checked only when it is positive.
CountOnDate(draft, d, k) ==
    Cardinality({sid \in StaffIds : Get(draft, sid, d) = k})

\* Fault variant of StaffingOk: the comparison with the required count is
\* strict, which admits one staff more than required.
StaffingOkOffByOne(d, k, draft) ==
    k \in WORK =>
        LET required_count == required_staffing[d][k]
        IN  required_count > 0 => ~(CountOnDate(draft, d, k) > required_count)

StaffingOk(d, k, draft) ==
    k \in WORK =>
        LET required_count == required_staffing[d][k]
        IN  required_count > 0 => ~(CountOnDate(draft, d, k) >= required_count)

\* Fault variant of TraineeOk: any entry of another staff on the date counts,
\* not only a WORK kind.
TraineeOkAnyEntry(s, d, k, draft) ==
    (staff[s].experience = "trainee" /\ k \in WORK) =>
        \E sid \in StaffIds \ {s} : Get(draft, sid, d) # None

\* Rule 6: a trainee works only when somebody else works that day.
TraineeOk(s, d, k, draft) ==
    (staff[s].experience = "trainee" /\ k \in WORK) =>
        \E sid \in StaffIds \ {s} : Get(draft, sid, d) \in WORK

is_assignment_valid(s, d, k, draft) ==
    /\ IsAvailable(s, d, k)
    /\ NightChainOk(s, d, k, draft)
    /\ NightQualified(s, k)
    /\ ConsecutiveOk(s, d, k, draft)
    /\ HolidayQuotaOk(s, d, k, draft)
    /\ StaffingOk(d, k, draft)
    /\ TraineeOk(s, d, k, draft)


\* -------------------------------------------------- the night-triple phase
night_shift_staff ==
    {s \in StaffIds : staff[s].employment_type \in NightEmployment}

\* Fault variant of CarryOverRow: after a night on the previous month's last
\* day only day 1 is written.
CarryOverRowFirstDayOnly(draft, s) ==
    LET prev_day_shift == Get(draft, s, start_date - 1)
        row == draft[s]
    IN  IF prev_day_shift = "night"
        THEN [d \in DraftDates |->
                IF d = start_date /\ start_date <= end_date THEN "after"
                ELSE row[d]]
        ELSE row

\* Carry-over of a night at the end of the previous month into days 1 and 2.
\* start_date - 2 lies before prev_month_end, the first date that was read.
CarryOverRow(draft, s) ==
    LET prev_day_shift == Get(draft, s, start_date - 1)
        two_days_ago_shift == Get(draft, s, start_date - 2)
        row == draft[s]
    IN  IF prev_day_shift = "night"
        THEN [d \in DraftDates |->
                IF d = start_date /\ start_date <= end_date THEN "after"
                ELSE IF d = start_date + 1 /\ start_date + 1 <= end_date
                     THEN "holiday"
                     ELSE row[d]]
        ELSE IF two_days_ago_shift = "night" /\ prev_day_shift = "after"
             THEN [d \in DraftDates |->
                     IF d = start_date /\ start_date <= end_date
                     THEN "holiday" ELSE row[d]]
             ELSE row

CarryOver(draft) ==
    [s \in StaffIds |->
        IF s \in night_shift_staff THEN CarryOverRow(draft, s) ELSE draft[s]]

total_required_nights ==
    SumOver([d \in MonthDates |-> required_staffing[d]["night"]], MonthDates)

current_assigned_nights(draft) ==
    SumOver([s \in StaffIds |-> CountKind(draft, s, "night")], StaffIds)

\* Start dates of a triple for one staff: range(num_days - 2).
potential_dates(draft, s) ==
    {d \in start_date..(start_date + NumDays - 3) :
        /\ is_assignment_valid(s, d, "night", draft)
        /\ is_assignment_valid(s, d + 1, "after", draft)
        /\ is_assignment_valid(s, d + 2, "holiday", draft)}

staff_potential_placements(draft) ==
    {s \in night_shift_staff : potential_dates(draft, s) # {}}

\* sorted(..., key=len)[0]: the fewest candidates, the lowest id among equals
\* (the sort is stable and the dict is filled in id order).
target_staff_id(draft) ==
    CHOOSE s \in staff_potential_placements(draft) :
        \A o \in staff_potential_placements(draft) :
            \/ Cardinality(potential_dates(draft, s))
                 < Cardinality(potential_dates(draft, o))
            \/ /\ Cardinality(potential_dates(draft, s))
                    = Cardinality(potential_dates(draft, o))
               /\ s <= o

PlaceTriple(draft, s, place_date) ==
    [draft EXCEPT ![s] =
        [d \in DraftDates |->
            IF d = place_date THEN "night"
            ELSE IF d = place_date + 1 /\ place_date + 1 <= end_date
                 THEN "after"
                 ELSE IF d = place_date + 2 /\ place_date + 2 <= end_date
                      THEN "holiday"
                      ELSE draft[s][d]]]

\* ---------------------------------------------------------- slot ordering
total_required_hours ==
    SumOver([d \in MonthDates |->
                SumOver([k \in WORK |-> HoursOf(k) * required_staffing[d][k]],
                        WORK)],
            MonthDates)

workable_staff_count == Cardinality(StaffIds)

\* Fault variant of unassigned_slots: the last day of the month is not listed.
unassigned_slots_short(draft) ==
    {<<d, s>> \in (MonthDates \ {end_date}) \X StaffIds : draft[s][d] = None}

\* Fault variant of unassigned_slots: every cell of the month is listed,
\* whether the draft holds an entry for it or not.
unassigned_slots_all(draft) == MonthDates \X StaffIds

unassigned_slots(draft) ==
    {<<d, s>> \in MonthDates \X StaffIds : draft[s][d] = None}

option_count(draft, slot) ==
    Cardinality({k \in BaseKinds :
                    is_assignment_valid(slot[2], slot[1], k, draft)})

required_sum(d) == SumOver(required_staffing[d], WORK)

\* Fault variant of slot_metric: the number of valid kinds is left out of the
\* key.
slot_metric_by_day(draft, slot) ==
    <<-slot[1], -required_sum(slot[1]),
      (slot[1] - 1) * workable_staff_count + StaffIndex(slot[2])>>

\* metric = (option_count, -day_impact, -required_sum); the sort is stable,
\* so equal metrics keep the order of the enumeration (date, then staff).
slot_metric(draft, slot) ==
    <<option_count(draft, slot), -slot[1], -required_sum(slot[1]),
      (slot[1] - 1) * workable_staff_count + StaffIndex(slot[2])>>

RECURSIVE TupleLess(_, _, _)
TupleLess(a, b, i) ==
    IF i > Len(a) THEN FALSE
    ELSE IF a[i] # b[i] THEN a[i] < b[i] ELSE TupleLess(a, b, i + 1)

\* keyed is a set of <<metric, slot>> pairs.
RECURSIVE SortByMetric(_)
SortByMetric(keyed) ==
    IF keyed = {} THEN <<>>
    ELSE LET m == CHOOSE x \in keyed :
                    \A y \in keyed \ {x} : TupleLess(x[1], y[1], 1)
         IN  <<m[2]>> \o SortByMetric(keyed \ {m})

SortSlots(draft, S) ==
    SortByMetric({<<slot_metric(draft, slot), slot>> : slot \in S})

\* ------------------------------------------------------- the value scorer
\* Scores are kept as 8 * workable_staff_count times the source's floats, so
\* that the workload penalty (current_hours - target_avg_hours) / 8 * 10 with
\* target_avg_hours = total_required_hours / workable_staff_count is integral.
ScoreScale == 8 * workable_staff_count

ShortageBonus(draft, d, k) ==
    IF k \in WORK /\ required_staffing[d][k] > 0
          /\ CountOnDate(draft, d, k) < required_staffing[d][k]
    THEN 200 * (required_staffing[d][k] - CountOnDate(draft, d, k))
    ELSE 0

\* +10 for every matching row that is available, -1000 for every other one.
AvailabilityBonus(avs, dow, k) ==
    LET m == Matching(avs, dow, k)
    IN  10 * Cardinality({i \in m : avs[i].is_available})
          - 1000 * Cardinality({i \in m : ~avs[i].is_available})

current_hours(draft, s) ==
    SumOver([d \in DraftDates |-> HoursOf(draft[s][d])], DraftDates)

shift_scores(draft, slot) ==
    LET date == slot[1]
        s == slot[2]
        holidays == CountKind(draft, s, "holiday")
        \* current_hours - target_avg_hours, times workable_staff_count
        excess == current_hours(draft, s) * workable_staff_count
                    - total_required_hours
    IN  [k \in BaseKinds |->
            ScoreScale
              * ( ShortageBonus(draft, date, k)
                + AvailabilityBonus(availabilities[s], day_of_week_db(date), k)
                + (IF k = "holiday" /\ holidays < TARGET_HOLIDAYS
                   THEN 50 ELSE 0) )
            - (IF k \in WORK /\ excess > 0 THEN 10 * excess ELSE 0)]

\* -------------------------------------------------------------- the store
Row(s, d, k) == [staff_id |-> s, date |-> d, shift_type |-> k]

\* Shift.query.filter(Shift.date.between(lo, hi))
RowsBetween(bag, lo, hi) ==
    {r \in BagToSet(bag) : lo <= r.date /\ r.date <= hi}

\* .delete() of the rows with lo <= date <= hi
DeleteBetween(bag, lo, hi) ==
    [r \in {x \in BagToSet(bag) : ~(lo <= x.date /\ x.date <= hi)} |-> bag[r]]

\* A transaction of db.session: the rows it has deleted from the table and the
\* rows it has added; nothing of it is in the table before the commit.
NoChanges == [deleted |-> EmptyBag, inserted |-> EmptyBag]

\* The table with the changes of a transaction applied: what the transaction
\* sees, and what the table becomes when it commits.
Applied(table, tx) == (table (-) tx.deleted) (+) tx.inserted

\* Fault variant of new_shifts_to_save: the month of the date is not tested,
\* so the previous month's tail is stored again.
new_shifts_to_save_unfiltered(draft) ==
    {Row(s, d, draft[s][d]) : <<s, d>> \in
        {c \in StaffIds \X DraftDates : draft[c[1]][c[2]] # None}}

\* new_shifts_to_save: the draft entries whose date lies in the target month.
\* date_obj.month == month holds exactly for the dates 1..NumDays.
new_shifts_to_save(draft) ==
    {Row(s, d, draft[s][d]) : <<s, d>> \in
        {c \in StaffIds \X DraftDates :
            c[2] \in MonthDates /\ draft[c[1]][c[2]] # None}}

\* ------------------------------------------------------------------ inputs
AllKinds == BaseKinds \cup {"paid"}

StaffProfiles ==
    { [employment_type |-> "regular", experience |-> "veteran"],
      [employment_type |-> "contract", experience |-> "trainee"],
      [employment_type |-> "parttime", experience |-> "trainee"],
      [employment_type |-> "parttime", experience |-> "veteran"] }

Availability(dow, k, a) ==
    [day_of_week |-> dow, shift_type |-> k, is_available |-> a]

RECURSIVE SetToSeq(_)
SetToSeq(S) ==
    IF S = {} THEN <<>>
    ELSE LET x == CHOOSE y \in S : TRUE IN <<x>> \o SetToSeq(S \ {x})

\* Every modelled staff declines day1, day2, middle and late on every weekday,
\* which leaves early, night, holiday and after to the search.
DayKindsDeclined ==
    SetToSeq({Availability(dow, k, FALSE) :
                <<dow, k>> \in (0..6) \X {"day1", "day2", "middle", "late"}})

\* The first staff also declines a holiday on the weekday of the month's last
\* day and asks for early on the weekday of its first day.
LastHolidayDeclined ==
    DayKindsDeclined
      \o <<Availability(day_of_week_db(NumDays), "holiday", FALSE),
           Availability(day_of_week_db(1), "early", TRUE)>>

\* The first staff also declines night and holiday on every weekday.
RestDeclined ==
    DayKindsDeclined
      \o SetToSeq({Availability(dow, k, FALSE) :
                     <<dow, k>> \in (0..6) \X {"night", "holiday"}})

AvailabilityChoices ==
    { [s \in StaffIds |-> DayKindsDeclined],
      [s \in StaffIds |-> IF s = 1 THEN LastHolidayDeclined ELSE DayKindsDeclined],
      [s \in StaffIds |-> IF s = 1 THEN RestDeclined ELSE DayKindsDeclined] }

NoRequirement == [k \in WORK |-> 0]

RequiredChoices ==
    { [d \in MonthDates |-> NoRequirement],
      [d \in MonthDates |-> [NoRequirement EXCEPT !["early"] = 1]],
      [d \in MonthDates |->
          IF d = 2 THEN NoRequirement
          ELSE [NoRequirement EXCEPT !["night"] = 1]] }

TargetChoices == {0, 1, 2}

\* Rows of the previous month's end (and of the day before it).
TailChoices ==
    { EmptyBag,
      SetToBag({Row(1, 0, "night"), Row(2, 0, "early")}),
      SetToBag({Row(1, -1, "night"), Row(1, 0, "after")}) }

\* Rows already stored for the target month and for the month after it.
MonthChoices ==
    { EmptyBag,
      SetToBag({Row(1, 2, "night"), Row(1, NumDays + 1, "early")}),
      SetToBag({Row(1, 1, "early"), Row(2, 1, "early"), Row(2, 1, "paid")})
        (+) SetToBag({Row(2, 1, "early")}) }

\* shift_draft = {s.id: {} for s in all_staff}
EmptyDraft == [s \in StaffIds |-> [d \in DraftDates |-> None]]

\* The year and month fields of the request body, None when missing.
YearChoices == {None, "2026"}

MonthFieldChoices == {None, "11"}

\* The locals of a request that has not run a statement yet, and the record
\* that stands for no second request.
Arrived ==
    [pc |-> "load", session |-> NoChanges, existing_shifts |-> {},
     shift_draft |-> EmptyDraft, sorted_unassigned_slots |-> <<>>,
     stack |-> <<>>, success |-> FALSE, final_message |-> None,
     raised |-> None, status |-> 0]

NoRequest == [Arrived EXCEPT !.pc = "absent"]

\* sys.getrecursionlimit() of the interpreter that runs the handler: the
\* source never sets it, so it is CPython's default.
RecursionLimit == 1000

\* An interpreter whose limit is below the number of slots of a month, as
\* 1000 is below the 1020 slots of a month of 30 days with 34 staff.
ShallowLimit == 6

InitRequest ==
    /\ year \in YearChoices
    /\ month \in MonthFieldChoices
    /\ staff \in [StaffIds -> StaffProfiles]
    /\ availabilities \in AvailabilityChoices
    /\ required_staffing \in RequiredChoices
    /\ TARGET_HOLIDAYS \in TargetChoices
    /\ \E tail \in TailChoices, rows \in MonthChoices : store = tail (+) rows
    /\ session = NoChanges
    /\ stored_before = store
    /\ existing_shifts = {}
    /\ shift_draft = EmptyDraft
    /\ sorted_unassigned_slots = <<>>
    /\ stack = <<>>
    /\ success = FALSE
    /\ final_message = None
    /\ raised = None
    /\ status = 0
    /\ pc = "load"

Init ==
    /\ InitRequest
    /\ recursion_limit = RecursionLimit
    /\ other = NoRequest

\* The same requests under an interpreter with the shallow limit.
InitShallow ==
    /\ InitRequest
    /\ recursion_limit = ShallowLimit
    /\ other = NoRequest

\* ----------------------------------------------------------------- actions
\* generate_shifts, lines 586-596: read the staff and the stored rows from
\* prev_month_end to end_date into a fresh draft.  The query has no ORDER BY,
\* so of several rows for one (staff, date) any one may be written last.
CellKinds(rows, s, d) ==
    {r.shift_type : r \in {x \in rows : x.staff_id = s /\ x.date = d}}

LoadedDrafts(rows) ==
    LET Cells == StaffIds \X DraftDates
        Several == {c \in Cells : Cardinality(CellKinds(rows, c[1], c[2])) > 1}
    IN  { [s \in StaffIds |-> [d \in DraftDates |->
             IF <<s, d>> \in Several THEN last[<<s, d>>]
             ELSE IF CellKinds(rows, s, d) = {} THEN None
                  ELSE CHOOSE k \in CellKinds(rows, s, d) : TRUE]] :
          last \in {f \in [Several -> AllKinds] :
                      \A c \in Several : f[c] \in CellKinds(rows, c[1], c[2])} }

\* Fault variant of BadRequest: only the year is looked at.
BadRequestYearOnly(y, m) == y = None

\* generate_shifts, line 581: not year or not month.
BadRequest(y, m) == y = None \/ m = None

\* Fault variant of rollback: the changes of the failed transaction reach the
\* table.
rollback_flushed(table, pending) == Applied(table, pending)

\* db.session.rollback(): the changes of the open transaction are discarded.
rollback(table, pending) == table

\* generate_shifts, line 581: the request is answered with 400 before the try
\* block is entered.
RejectRequest ==
    /\ pc = "load"
    /\ BadRequest(year, month)
    /\ status' = 400
    /\ pc' = "done"
    /\ UNCHANGED <<inputs, other, store, session, existing_shifts,
                   shift_draft,
                   sorted_unassigned_slots, stack, success, final_message,
                   raised>>

LoadDraft ==
    /\ pc = "load"
    /\ ~BadRequest(year, month)
    /\ existing_shifts' = RowsBetween(store, start_date - 1, end_date)
    /\ shift_draft' \in LoadedDrafts(existing_shifts')
    /\ pc' = "carry"
    /\ UNCHANGED <<inputs, other, store, session, sorted_unassigned_slots,
                   stack,
                   success, final_message, raised, status>>

\* generate_shifts, lines 676-681: a call inside the try block raised; the
\* handler rolls the session back and answers with 500.  Nothing of the draft
\* is returned: the locals of the call are gone.
ExceptHandler(step) ==
    /\ raised' = step
    /\ store' = rollback(store, session)
    /\ session' = NoChanges
    /\ status' = 500
    /\ existing_shifts' = {}
    /\ shift_draft' = EmptyDraft
    /\ sorted_unassigned_slots' = <<>>
    /\ stack' = <<>>
    /\ success' = FALSE
    /\ final_message' = None
    /\ pc' = "done"

\* generate_shifts, lines 587-591: one of the two queries that read the staff
\* and the stored rows raises.
LoadFails ==
    /\ pc = "load"
    /\ ~BadRequest(year, month)
    /\ ExceptHandler("load")
    /\ UNCHANGED <<inputs, other>>

\* assign_night_shift_sets, lines 497-512: return at once when nobody is
\* qualified for nights, else carry the previous month's night over.
CarryOverNights ==
    /\ pc = "carry"
    /\ IF night_shift_staff = {}
       THEN /\ shift_draft' = shift_draft
            /\ pc' = "order"
       ELSE /\ shift_draft' = CarryOver(shift_draft)
            /\ pc' = "preassign"
    /\ UNCHANGED <<inputs, other, store, session, existing_shifts,
                   sorted_unassigned_slots, stack, success, final_message,
                   raised, status>>

\* assign_night_shift_sets, lines 515-556: the loop ends when the required
\* nights are assigned or when no staff has a start date.
PreAssignStop ==
    /\ pc = "preassign"
    /\ \/ current_assigned_nights(shift_draft) >= total_required_nights
       \/ staff_potential_placements(shift_draft) = {}
    /\ pc' = "order"
    /\ UNCHANGED <<inputs, other, store, session, existing_shifts,
                   shift_draft,
                   sorted_unassigned_slots, stack, success, final_message,
                   raised, status>>

\* assign_night_shift_sets, lines 515-567: one iteration that places a triple
\* at random.choice(placable_dates) for the staff with the fewest start dates.
PreAssignPlace ==
    /\ pc = "preassign"
    /\ current_assigned_nights(shift_draft) < total_required_nights
    /\ staff_potential_placements(shift_draft) # {}
    /\ \E place_date \in potential_dates(shift_draft, target_staff_id(shift_draft)) :
         shift_draft' =
            PlaceTriple(shift_draft, target_staff_id(shift_draft), place_date)
    /\ UNCHANGED <<inputs, other, store, session, existing_shifts,
                   sorted_unassigned_slots, stack, success, final_message,
                   raised, status, pc>>

\* A frame of solve_shift_puzzle at the head of its for loop: the scores it
\* computed on entry and the kinds its loop has assigned so far.
NewFrame(draft, slot) == [scores |-> shift_scores(draft, slot), tried |-> {}]

\* generate_shifts, lines 607-651: list and sort the unassigned cells and call
\* solve_shift_puzzle, which returns True at once for an empty list.
OrderSlots ==
    /\ pc = "order"
    /\ sorted_unassigned_slots' =
          SortSlots(shift_draft, unassigned_slots(shift_draft))
    /\ IF sorted_unassigned_slots' = <<>>
       THEN /\ stack' = <<>>
            /\ success' = TRUE
            /\ pc' = "persist"
       ELSE /\ stack' = <<NewFrame(shift_draft, sorted_unassigned_slots'[1])>>
            /\ success' = success
            /\ pc' = "solve"
    /\ UNCHANGED <<inputs, other, store, session, existing_shifts,
                   shift_draft,
                   final_message, raised, status>>

\* random.shuffle followed by the stable descending sort visits the kinds in
\* any order of non-increasing score.  The draft at the head of the loop is the
\* same in every iteration of a frame, so a kind the validator rejects is
\* rejected wherever it stands in that order; the next kind the loop assigns is
\* one of the best-scored valid kinds it has not assigned yet.
NextKinds(draft, slot, frame) ==
    LET valid == {k \in BaseKinds \ frame.tried :
                    is_assignment_valid(slot[2], slot[1], k, draft)}
    IN  {k \in valid : \A o \in valid : frame.scores[k] >= frame.scores[o]}

\* solve_shift_puzzle, lines 475-481: assign the next valid kind and recurse;
\* the call on an empty remainder returns True through every frame.  Every
\* slot is one nested call, and the call on the empty remainder is one more:
\* when the interpreter allows no further call, the recursive call raises
\* RecursionError, which no frame catches before generate_shifts' handler.
SolveAssign ==
    /\ pc = "solve"
    /\ LET depth == Len(stack)
           slot == sorted_unassigned_slots[depth]
       IN  \E k \in NextKinds(shift_draft, slot, stack[depth]) :
             IF depth + 1 > recursion_limit
             THEN ExceptHandler("solve")
             ELSE /\ shift_draft' =
                        [shift_draft EXCEPT ![slot[2]][slot[1]] = k]
                  /\ IF depth = Len(sorted_unassigned_slots)
                     THEN /\ stack' = <<>>
                          /\ success' = TRUE
                          /\ pc' = "persist"
                     ELSE /\ stack' =
                               Append([stack EXCEPT ![depth].tried = @ \cup {k}],
                                      NewFrame(shift_draft',
                                               sorted_unassigned_slots[depth + 1]))
                          /\ success' = success
                          /\ pc' = "solve"
                  /\ UNCHANGED <<store, session, existing_shifts,
                                 sorted_unassigned_slots, final_message,
                                 raised, status>>
    /\ UNCHANGED <<inputs, other>>

\* Fault variant of Unassign: the entry of a failed attempt stays in the draft.
UnassignSkipped(draft, slot) == draft

\* del shift_draft[staff.id][date]
Unassign(draft, slot) == [draft EXCEPT ![slot[2]][slot[1]] = None]

\* solve_shift_puzzle, lines 483-487: the loop is exhausted, the call returns
\* False and its caller deletes the cell it had assigned.
SolveBacktrack ==
    /\ pc = "solve"
    /\ LET depth == Len(stack)
           slot == sorted_unassigned_slots[depth]
       IN  /\ NextKinds(shift_draft, slot, stack[depth]) = {}
           /\ IF depth = 1
              THEN /\ stack' = <<>>
                   /\ shift_draft' = shift_draft
                   /\ success' = FALSE
                   /\ pc' = "persist"
              ELSE LET caller == sorted_unassigned_slots[depth - 1]
                   IN  /\ stack' = SubSeq(stack, 1, depth - 1)
                       /\ shift_draft' = Unassign(shift_draft, caller)
                       /\ success' = success
                       /\ pc' = "solve"
    /\ UNCHANGED <<inputs, other, store, session, existing_shifts,
                   sorted_unassigned_slots, final_message, raised, status>>

\* generate_shifts, lines 653-658: choose the message and delete the month's
\* rows inside the session's transaction.  The DELETE is the transaction's
\* first write: it removes the committed rows of the month, and it waits while
\* another transaction holds uncommitted deletes of rows of the month.
DeleteMonthRows ==
    /\ pc = "persist"
    /\ final_message' = IF success THEN "complete" ELSE "incomplete"
    /\ RowsBetween(other.session.deleted, start_date, end_date) = {}
    /\ session' =
          [session EXCEPT !.deleted =
              @ (+) (store (-) DeleteBetween(store, start_date, end_date))]
    /\ pc' = "insert"
    /\ UNCHANGED <<inputs, other, store, existing_shifts, shift_draft,
                   sorted_unassigned_slots, stack, success, raised, status>>

\* generate_shifts, lines 660-666: add one row per draft entry of the month.
SaveNewShifts ==
    /\ pc = "insert"
    /\ session' =
          [session EXCEPT !.inserted =
              @ (+) SetToBag(new_shifts_to_save(shift_draft))]
    /\ pc' = "commit"
    /\ UNCHANGED <<inputs, other, store, existing_shifts, shift_draft,
                   sorted_unassigned_slots, stack, success, final_message,
                   raised, status>>

\* generate_shifts, line 667: the transaction's changes reach the table.
CommitSession ==
    /\ pc = "commit"
    /\ store' = Applied(store, session)
    /\ session' = NoChanges
    /\ pc' = "respond"
    /\ UNCHANGED <<inputs, other, existing_shifts, shift_draft,
                   sorted_unassigned_slots, stack, success, final_message,
                   raised, status>>

\* generate_shifts, lines 669-674: read the month back and answer with 200.
\* The draft and the search's result are kept as what the call returned.
RespondOk ==
    /\ pc = "respond"
    /\ status' = 200
    /\ pc' = "done"
    /\ UNCHANGED <<inputs, other, store, session, existing_shifts,
                   shift_draft,
                   sorted_unassigned_slots, stack, success, final_message,
                   raised>>

\* The step of the replace at each position of the handler.
StorageStep ==
    [persist |-> "delete", insert |-> "insert", commit |-> "commit",
     respond |-> "read"]

\* generate_shifts, lines 658-681: the delete, the bulk insert, the commit or
\* the query that reads the month back raises.
StorageFails ==
    /\ pc \in DOMAIN StorageStep
    /\ ExceptHandler(StorageStep[pc])
    /\ UNCHANGED <<inputs, other>>

Next ==
    \/ RejectRequest
    \/ LoadFails
    \/ LoadDraft
    \/ CarryOverNights
    \/ PreAssignStop
    \/ PreAssignPlace
    \/ OrderSlots
    \/ SolveAssign
    \/ SolveBacktrack
    \/ DeleteMonthRows
    \/ SaveNewShifts
    \/ CommitSession
    \/ RespondOk
    \/ StorageFails

Spec == Init /\ [][Next]_vars

\* The handler under the shallow interpreter limit.
SpecShallow == InitShallow /\ [][Next]_vars

\* ------------------------------------------------- two requests at once
\* The WSGI server runs a second generate request for the same month in
\* another worker, with a db.session of its own on the same table.  Between
\* two statements a handler works on its locals only, so the two handlers are
\* interleaved at the statements: the read of the stored rows, the DELETE, the
\* COMMIT (which flushes the INSERTs) and the read of the month for the
\* answer.  Neither handler takes a lock before it reads or writes the month.
SwitchPoints == {"load", "persist", "commit", "respond", "done"}

Locals ==
    [pc |-> pc, session |-> session, existing_shifts |-> existing_shifts,
     shift_draft |-> shift_draft,
     sorted_unassigned_slots |-> sorted_unassigned_slots, stack |-> stack,
     success |-> success, final_message |-> final_message, raised |-> raised,
     status |-> status]

\* The server's scheduler lets the other handler run.
SwitchRequest ==
    /\ pc \in SwitchPoints
    /\ other.pc \notin {"absent", "done"}
    /\ other' = Locals
    /\ pc' = other.pc
    /\ session' = other.session
    /\ existing_shifts' = other.existing_shifts
    /\ shift_draft' = other.shift_draft
    /\ sorted_unassigned_slots' = other.sorted_unassigned_slots
    /\ stack' = other.stack
    /\ success' = other.success
    /\ final_message' = other.final_message
    /\ raised' = other.raised
    /\ status' = other.status
    /\ UNCHANGED <<inputs, store>>

\* Two requests with the same body have arrived.  Of the requests of
\* InitRequest: part-time veterans with an early required on every day, or
\* regular veterans with a night required on every day but the second.
InitConcurrent ==
    /\ InitRequest
    /\ month = "11"
    /\ TARGET_HOLIDAYS = 1
    /\ availabilities = [s \in StaffIds |-> DayKindsDeclined]
    /\ \/ /\ \A s \in StaffIds :
                staff[s] = [employment_type |-> "parttime",
                            experience |-> "veteran"]
          /\ required_staffing[start_date]["early"] = 1
       \/ /\ \A s \in StaffIds :
                staff[s] = [employment_type |-> "regular",
                            experience |-> "veteran"]
          /\ required_staffing[start_date]["night"] = 1
    /\ recursion_limit = RecursionLimit
    /\ other = Arrived

NextConcurrent ==
    \/ Next
    \/ SwitchRequest

SpecConcurrent == InitConcurrent /\ [][NextConcurrent]_vars

\* ------------------------------------------------------------ properties
\* generate_shifts has answered with 200; shift_draft is the draft it returns.
Returned == pc = "done" /\ status = 200

\* The solve started with no stored shifts in the target month.
NoStoredMonthShifts == RowsBetween(SetToBag(existing_shifts), start_date, end_date) = {}

Qualified(s) == staff[s].employment_type \in NightEmployment

RowComplete(s) == \A d \in MonthDates : shift_draft[s][d] # None

MonthHolidays(s) ==
    Cardinality({d \in MonthDates : shift_draft[s][d] = "holiday"})

\* The draft without the entry of (s, d).
Without(draft, s, d) == [draft EXCEPT ![s][d] = None]

\* The rows read for (s, d) before the solve.
StoredKinds(s, d) == CellKinds(existing_shifts, s, d)

\* C1: in a returned draft of a solve that started with no stored shifts in
\* the target month, a night is followed (when the next day has an entry) by
\* after, and an after is followed (when the next day has an entry) by holiday.
C1_PostNightChain ==
    (Returned /\ NoStoredMonthShifts) =>
        \A s \in StaffIds : \A d \in DraftDates :
            (d + 1 <= end_date /\ shift_draft[s][d + 1] # None) =>
                /\ shift_draft[s][d] = "night" => shift_draft[s][d + 1] = "after"
                /\ (shift_draft[s][d] = "after" /\ d >= start_date)
                      => shift_draft[s][d + 1] = "holiday"

\* C2: in a returned draft no staff has 5 consecutive dates of the target
\* month that all carry a WORK kind.
C2_ConsecutiveWorkBound ==
    Returned =>
        \A s \in StaffIds : \A d \in MonthDates :
            ~(d + 4 <= end_date
              /\ \A i \in 0..4 : shift_draft[s][d + i] \in WORK)

\* C3 as stated: in a returned draft the count of every WORK kind on every
\* date is at most the required count, an absent requirement counting as 0.
C3_StaffingCeilingZeroDefault ==
    Returned =>
        \A d \in MonthDates : \A k \in WORK :
            CountOnDate(shift_draft, d, k) <= required_staffing[d][k]

StoredCountOnDate(d, k) ==
    Cardinality({s \in StaffIds : k \in StoredKinds(s, d)})

Max(a, b) == IF a >= b THEN a ELSE b

\* C3 amended: in a returned draft, for every date and every WORK kind whose
\* required count is positive, the count is at most the larger of the required
\* count and the number of staff the stored rows already gave that kind on
\* that date; a kind without a positive requirement has no ceiling.
C3_StaffingCeilingPositive ==
    Returned =>
        \A d \in MonthDates : \A k \in WORK :
            required_staffing[d][k] > 0 =>
                CountOnDate(shift_draft, d, k)
                    <= Max(required_staffing[d][k], StoredCountOnDate(d, k))

C3_Witness ==
    /\ Returned
    /\ \E d \in MonthDates : \E k \in WORK : \E s \in StaffIds :
         /\ required_staffing[d][k] > 0
         /\ CountOnDate(shift_draft, d, k) = required_staffing[d][k]
         /\ shift_draft[s][d] = k
         /\ StoredKinds(s, d) = {}
         /\ \E o \in StaffIds \ {s} :
              shift_draft[o][d] \in WORK \ {k} /\ StoredKinds(o, d) = {}

\* C4: when the search returned SUCCESS, every complete staff row has exactly
\* TARGET_HOLIDAYS holidays in the target month.
C4_QuotaEqualityOnSuccess ==
    (Returned /\ success) =>
        \A s \in StaffIds :
            RowComplete(s) => MonthHolidays(s) = TARGET_HOLIDAYS

\* C5: in a returned draft every staff has at most TARGET_HOLIDAYS holidays.
C5_QuotaBound ==
    Returned =>
        \A s \in StaffIds : CountKind(shift_draft, s, "holiday") <= TARGET_HOLIDAYS

\* C6: every entry of the target month in a returned draft passes the
\* validator against the draft without that entry.
C6_ValidatorClosure ==
    Returned =>
        \A s \in StaffIds : \A d \in MonthDates :
            shift_draft[s][d] # None =>
                is_assignment_valid(s, d, shift_draft[s][d],
                                    Without(shift_draft, s, d))

\* C7: in every state of the solve, a night entry of the target month that
\* was not read from the store belongs to a regular or contract staff.
C7_NightQualification ==
    \A s \in StaffIds : \A d \in MonthDates :
        (shift_draft[s][d] = "night" /\ "night" \notin StoredKinds(s, d))
            => Qualified(s)

C7_Witness ==
    /\ pc = "solve"
    /\ \E s \in StaffIds : \E d \in MonthDates :
         /\ shift_draft[s][d] = "night"
         /\ StoredKinds(s, d) = {}
    /\ \E o \in StaffIds : \E d \in MonthDates :
         /\ ~Qualified(o)
         /\ shift_draft[o][d] \in WORK
         /\ StoredKinds(o, d) = {}

\* C8: in a returned draft of a solve that started with no stored shifts in
\* the target month, every WORK entry of a trainee in the target month is on
\* a date on which another staff holds a WORK entry.
C8_TraineeSolo ==
    (Returned /\ NoStoredMonthShifts) =>
        \A s \in StaffIds : \A d \in MonthDates :
            (staff[s].experience = "trainee" /\ shift_draft[s][d] \in WORK) =>
                \E o \in StaffIds \ {s} : shift_draft[o][d] \in WORK

C8_Witness ==
    /\ Returned
    /\ NoStoredMonthShifts
    /\ \E s \in StaffIds : \E d \in MonthDates :
         /\ staff[s].experience = "trainee"
         /\ shift_draft[s][d] \in WORK

\* C9: the complete message is reported exactly when the search returned
\* SUCCESS, and then every (staff, date) of the target month has an entry.
C9_CompleteMeansComplete ==
    Returned =>
        /\ (final_message = "complete") <=> success
        /\ final_message = "complete" => \A s \in StaffIds : RowComplete(s)

C9_Witness ==
    /\ Returned
    /\ final_message = "complete"
    /\ Len(sorted_unassigned_slots) = NumDays * Cardinality(StaffIds)

MonthBag(bag) ==
    [r \in {x \in BagToSet(bag) : x.date \in MonthDates} |-> bag[r]]

OutsideBag(bag) ==
    [r \in {x \in BagToSet(bag) : x.date \notin MonthDates} |-> bag[r]]

\* C10: the step that stores the result leaves as the month's rows exactly
\* one row per draft entry of the target month and leaves every row outside
\* the target month as it was; no other step of the request changes the store.
C10_MonthReplaceFrame ==
    [][ IF pc = "commit" /\ raised' = None
        THEN /\ MonthBag(store') = SetToBag(
                    {Row(s, d, shift_draft[s][d]) : <<s, d>> \in
                        {c \in StaffIds \X MonthDates :
                            shift_draft[c[1]][c[2]] # None}})
             /\ OutsideBag(store') = OutsideBag(store)
        ELSE store' = store ]_vars

C10_Witness ==
    /\ Returned
    /\ \E r \in BagToSet(store) : r.date = start_date - 1
    /\ \E r \in BagToSet(store) : r.date = end_date + 1
    /\ \E r \in existing_shifts : r.date \in MonthDates /\ ~BagIn(r, store)
    /\ \E r \in BagToSet(store) : r.date \in MonthDates /\ r \notin existing_shifts

\* The rows the replace stores for the month: one per draft entry of the month.
DraftMonthBag ==
    SetToBag({Row(s, d, shift_draft[s][d]) : <<s, d>> \in
                {c \in StaffIds \X MonthDates : shift_draft[c[1]][c[2]] # None}})

ReplaceSteps == {"delete", "insert", "commit"}

\* C11: when the delete, the insert or the commit of the replace raises, the
\* request is answered with 500 and the table is the table the request found;
\* and the table changes at most once during a request, in one step, from the
\* table the request found to that table with the month's rows replaced by
\* the rows of the draft, so that it never holds the month's rows deleted and
\* the new rows missing.
C11_AtomicReplace ==
    [][ /\ raised' \in ReplaceSteps =>
              (status' = 500 /\ store' = stored_before)
        /\ store' # store =>
              /\ store = stored_before
              /\ raised' = None
              /\ MonthBag(store') = DraftMonthBag
              /\ OutsideBag(store') = OutsideBag(stored_before)
      ]_vars

\* The commit raised for a month that had stored rows, which the delete had
\* removed inside the transaction.
C11_Witness ==
    /\ pc = "done"
    /\ raised = "commit"
    /\ status = 500
    /\ store = stored_before
    /\ MonthBag(stored_before) # EmptyBag

\* C12: a request whose year or month is missing is answered with 400 before
\* the stored rows are read and before any solve starts, and the table stays
\* the table the request found.
C12_BadRequestRejected ==
    (year = None \/ month = None) =>
        /\ pc \in {"load", "done"}
        /\ pc = "done" => status = 400
        /\ pc = "load" => status = 0
        /\ store = stored_before
        /\ existing_shifts = {}
        /\ stack = <<>>
        /\ sorted_unassigned_slots = <<>>
        /\ raised = None

C12_Witness ==
    /\ pc = "done"
    /\ status = 400
    /\ year # None
    /\ month = None
    /\ MonthBag(store) # EmptyBag

\* The positions of the handler at which the validator is applied to the draft.
Validating == pc \in {"preassign", "order", "solve"}

\* C13 as stated: whenever the staff's entry on the day before is night, the
\* validator accepts no kind but after.
C13_PostNightOnlyAfter ==
    Validating =>
        \A s \in StaffIds : \A d \in MonthDates :
            Get(shift_draft, s, d - 1) = "night" =>
                \A k \in BaseKinds :
                    is_assignment_valid(s, d, k, shift_draft) => k = "after"

\* C13 amended: whenever the staff's entry on the day before is night, the
\* validator accepts no kind but after and holiday.
C13_PostNightAfterOrHoliday ==
    Validating =>
        \A s \in StaffIds : \A d \in MonthDates :
            Get(shift_draft, s, d - 1) = "night" =>
                \A k \in BaseKinds :
                    is_assignment_valid(s, d, k, shift_draft)
                        => k \in {"after", "holiday"}

C13_Witness ==
    /\ pc = "solve"
    /\ \E s \in StaffIds : \E d \in MonthDates :
         /\ Get(shift_draft, s, d - 1) = "night"
         /\ shift_draft[s][d] = None
         /\ is_assignment_valid(s, d, "after", shift_draft)
         /\ is_assignment_valid(s, d, "holiday", shift_draft)
         /\ IsAvailable(s, d, "early")
         /\ ~is_assignment_valid(s, d, "early", shift_draft)

\* C14: the validator rejects every kind whose hours, added to the hours
\* already in the staff's draft, exceed 40 hours per 7 days of the month.
C14_WeeklyHoursCap ==
    Validating =>
        \A s \in StaffIds : \A d \in MonthDates : \A k \in BaseKinds :
            7 * (current_hours(shift_draft, s) + HoursOf(k)) > 40 * NumDays
                => ~is_assignment_valid(s, d, k, shift_draft)

\* The carry-over has run: the draft is loaded and the handler is past the
\* first part of assign_night_shift_sets.
CarriedOver ==
    \/ pc \in {"preassign", "order", "solve", "persist", "insert", "commit",
                "respond"}
    \/ pc = "done" /\ status = 200

\* C15 as stated: from the carry-over on, through the search and up to the
\* response, every staff whose stored shift on the last day of the previous
\* month is night has after on day 1 and holiday on day 2.
C15_NightCarryOverEveryStaff ==
    CarriedOver =>
        \A s \in StaffIds :
            StoredKinds(s, start_date - 1) = {"night"} =>
                /\ shift_draft[s][start_date] = "after"
                /\ shift_draft[s][start_date + 1] = "holiday"

\* C15 amended: from the carry-over on, through the search and up to the
\* response, every regular or contract staff whose stored shift on the last
\* day of the previous month is night has after on day 1 and holiday on day 2.
C15_NightCarryOverQualified ==
    CarriedOver =>
        \A s \in StaffIds :
            (Qualified(s) /\ StoredKinds(s, start_date - 1) = {"night"}) =>
                /\ shift_draft[s][start_date] = "after"
                /\ shift_draft[s][start_date + 1] = "holiday"

C15_Witness ==
    /\ Returned
    /\ \E s \in StaffIds :
         /\ Qualified(s)
         /\ StoredKinds(s, start_date - 1) = {"night"}
         /\ shift_draft[s][start_date] = "after"
         /\ shift_draft[s][start_date + 1] = "holiday"
         /\ \E i \in DOMAIN sorted_unassigned_slots :
              /\ sorted_unassigned_slots[i][2] = s
              /\ shift_draft[s][sorted_unassigned_slots[i][1]] # None

\* C16: from the carry-over on, every regular or contract staff whose stored
\* shifts are night two days before the month and after on the last day of
\* the previous month has holiday on day 1.
C16_TwoDayTailCarryOver ==
    CarriedOver =>
        \A s \in StaffIds :
            ( /\ Qualified(s)
              /\ \E r \in BagToSet(stored_before) :
                    r = Row(s, start_date - 2, "night")
              /\ StoredKinds(s, start_date - 1) = {"after"} )
                => shift_draft[s][start_date] = "holiday"

\* A start date on which the triple passes the validator when its three
\* entries are written one after the other.
TripleWritable(draft, s, d) ==
    LET with_night == [draft EXCEPT ![s][d] = "night"]
        with_after == [with_night EXCEPT ![s][d + 1] = "after"]
    IN  /\ is_assignment_valid(s, d, "night", draft)
        /\ is_assignment_valid(s, d + 1, "after", with_night)
        /\ is_assignment_valid(s, d + 2, "holiday", with_after)

\* C18: when the pre-assigner has returned, either the draft holds at least
\* the required number of nights, or no regular or contract staff has a start
\* date d, with d+2 inside the month, on which night, then after on d+1, then
\* holiday on d+2 would each pass the validator.
C18_PreAssignerProgress ==
    pc = "order" =>
        \/ current_assigned_nights(shift_draft) >= total_required_nights
        \/ ~ \E s \in StaffIds : \E d \in start_date..(end_date - 2) :
                Qualified(s) /\ TripleWritable(shift_draft, s, d)

\* C19: every iteration of the pre-assignment loop that does not stop leaves
\* more night entries in the draft than it found.
C19_IterationAddsNight ==
    ( /\ pc = "preassign"
      /\ current_assigned_nights(shift_draft) < total_required_nights
      /\ staff_potential_placements(shift_draft) # {} ) =>
        \A place_date \in
              potential_dates(shift_draft, target_staff_id(shift_draft)) :
            current_assigned_nights(
                PlaceTriple(shift_draft, target_staff_id(shift_draft),
                            place_date))
              > current_assigned_nights(shift_draft)

\* The cell of the i-th slot of the list handed to the search.
SlotCell(draft, i) ==
    draft[sorted_unassigned_slots[i][2]][sorted_unassigned_slots[i][1]]

SlotCells == {<<sorted_unassigned_slots[i][2], sorted_unassigned_slots[i][1]>> :
                i \in DOMAIN sorted_unassigned_slots}

\* C20: a step of the search changes no cell but the slot of the call that
\* assigns and the slot whose attempt has just failed; whenever a call is at
\* the head of its loop, and so whenever it returns FAIL, the slots before its
\* own hold the entries they held when it was entered and its own slot and
\* every later one are empty; and when the outermost call returns FAIL every
\* slot of the list is empty, so that an incomplete draft holds only the
\* entries it held before the search.
C20_RestorationOnFail ==
    [][ /\ pc' = "solve" =>
              \A i \in DOMAIN sorted_unassigned_slots' :
                  (SlotCell(shift_draft, i)' = None) <=> (i >= Len(stack'))
        /\ pc = "solve" =>
              /\ \A c \in (StaffIds \X DraftDates) \ SlotCells :
                    shift_draft'[c[1]][c[2]] = shift_draft[c[1]][c[2]]
              /\ \A i \in DOMAIN sorted_unassigned_slots :
                    (i < Len(stack) /\ (pc' = "solve" => i < Len(stack'))) =>
                        SlotCell(shift_draft, i)' = SlotCell(shift_draft, i)
        /\ (pc = "solve" /\ pc' = "persist" /\ ~success') =>
              \A i \in DOMAIN sorted_unassigned_slots :
                  SlotCell(shift_draft, i)' = None
      ]_vars

C20_Witness ==
    /\ pc = "solve"
    /\ Len(stack) = 1
    /\ Len(sorted_unassigned_slots) >= 3
    /\ Cardinality(stack[1].tried) >= 2
    /\ NextKinds(shift_draft, sorted_unassigned_slots[1], stack[1]) = {}

\* The search has been called and the handler has not failed.
Searched == pc \in {"solve", "persist", "insert", "commit", "respond"}

DraftCells == StaffIds \X DraftDates

\* C21: a cell that holds an entry when the slots are listed is not handed to
\* the search, and from the call of the search to the answer no step changes
\* the list of slots or a cell outside it: every entry made before the search
\* is the same in every state of the search and in the returned draft.
C21_SearchFrame ==
    [][ /\ pc = "order" =>
              \A c \in DraftCells :
                  shift_draft[c[1]][c[2]] # None =>
                      /\ c \notin SlotCells'
                      /\ shift_draft'[c[1]][c[2]] = shift_draft[c[1]][c[2]]
        /\ (Searched /\ raised' = None) =>
              /\ sorted_unassigned_slots' = sorted_unassigned_slots
              /\ \A c \in DraftCells \ SlotCells :
                    shift_draft'[c[1]][c[2]] = shift_draft[c[1]][c[2]]
      ]_vars

\* A returned draft whose search filled three cells or more next to a stored
\* night of the previous month and the after carried over from it.
C21_Witness ==
    /\ Returned
    /\ success
    /\ Len(sorted_unassigned_slots) >= 3
    /\ \E s \in StaffIds :
          /\ shift_draft[s][start_date - 1] = "night"
          /\ shift_draft[s][start_date] = "after"
          /\ StoredKinds(s, start_date) = {}
          /\ <<s, start_date>> \notin SlotCells

\* C22: when the solve starts, right after the stored rows are read, the draft
\* holds no entry for any date of the target month.
C22_EmptyInitialDraft ==
    pc = "carry" =>
        \A s \in StaffIds : \A d \in MonthDates : shift_draft[s][d] = None

\* C25: the list handed to the search is in ascending order of the number of
\* kinds the validator accepts for the slot in the draft left by the
\* pre-assignment; the search never changes the list, and the cell a call
\* fills is the first slot of the list that is still empty.
C25_SlotOrder ==
    [][ /\ pc = "order" =>
              \A i, j \in DOMAIN sorted_unassigned_slots' :
                  i < j => option_count(shift_draft, sorted_unassigned_slots'[i])
                             <= option_count(shift_draft,
                                             sorted_unassigned_slots'[j])
        /\ (pc = "solve" /\ raised' = None) =>
              /\ sorted_unassigned_slots' = sorted_unassigned_slots
              /\ \A i \in DOMAIN sorted_unassigned_slots :
                    ( /\ SlotCell(shift_draft, i) = None
                      /\ SlotCell(shift_draft, i)' # None ) =>
                        \A j \in 1..(i - 1) : SlotCell(shift_draft, j) # None
      ]_vars

\* The search has just been called with a list in which a slot of an earlier
\* date stands before a slot of a later date that has more valid kinds.
C25_Witness ==
    /\ pc = "solve"
    /\ Len(stack) = 1
    /\ stack[1].tried = {}
    /\ \E i, j \in DOMAIN sorted_unassigned_slots :
          /\ i < j
          /\ sorted_unassigned_slots[i][1] < sorted_unassigned_slots[j][1]
          /\ option_count(shift_draft, sorted_unassigned_slots[i])
                < option_count(shift_draft, sorted_unassigned_slots[j])

\* C24: the search never raises: whatever the slot list, the handler does not
\* end in its except branch because of the call of the search, so that the
\* search returns and the persist step follows it.
C24_SearchNeverRaises == raised # "solve"

\* The rows generate_shifts stores for a draft.
SavedBag(draft) == SetToBag(new_shifts_to_save(draft))

BothAnswered ==
    /\ pc = "done"
    /\ other.pc = "done"
    /\ status = 200
    /\ other.status = 200

\* C23: when two generate requests for the same month have both committed and
\* answered, the table holds at most one row for every staff and date of the
\* month, and the month's rows are the rows of the draft of one of the two.
C23_SameMonthExclusion ==
    BothAnswered =>
        /\ \A s \in StaffIds : \A d \in MonthDates :
              BagCardinality(
                  [r \in {x \in BagToSet(store) :
                             x.staff_id = s /\ x.date = d} |-> store[r]]) <= 1
        /\ \/ MonthBag(store) = SavedBag(shift_draft)
           \/ MonthBag(store) = SavedBag(other.shift_draft)

====
